---- MODULE Spec2Model ----
(***************************************************************************)
(* Model of the two Dash programs of the repository:                       *)
(*   src/main.py  the climb-performance callback update_output and its     *)
(*                inner function calculate_values;                          *)
(*   src/app.py   the image viewer's per-image toggle_modal callbacks.     *)
(*                                                                         *)
(* main.py computes with Python floats and numpy float64 arrays.  A float  *)
(* is modelled as a decimal floating-point number with an 8-digit          *)
(* mantissa (results are truncated to 8 significant digits where float64   *)
(* keeps about 16) together with the IEEE special values the code produces  *)
(* on purpose or by accident: signed zero, signed infinity and NaN.        *)
(* Python's scalar division raises ZeroDivisionError on a zero divisor;    *)
(* numpy's array division returns inf or nan.  Both are modelled.          *)
(***************************************************************************)
EXTENDS Integers, Sequences, FiniteSets, TLC

VARIABLES
    form,            \* main.py: the eight input values shown in the page
    calculate_n_clicks, \* main.py: n_clicks of the Calculate button
    output_div,      \* main.py: children of output-div
    calls,           \* main.py: the frame of each update_output invocation
    edits,           \* number of input edits so far (with the clicks bounded by MaxEvents)
    is_open,         \* app.py: is_open of modal-i
    image_n_clicks,  \* app.py: n_clicks of image-i
    close_n_clicks,  \* app.py: n_clicks of close-i
    started          \* app.py: whether Dash made callback i's initial call

main_vars == << form, calculate_n_clicks, output_div, calls, edits >>
viewer_vars == << is_open, image_n_clicks, close_n_clicks, started >>
vars == << form, calculate_n_clicks, output_div, calls, edits,
           is_open, image_n_clicks, close_n_clicks, started >>

\* ------------------------------------------------------------------------
\* Floating point: value = sgn * man * 10^exp, MantLo <= man < MantHi.
\* ------------------------------------------------------------------------
MantLo == 10^7
MantHi == 10^8
Half == 10^4

NaN == [cls |-> "nan", sgn |-> 1, man |-> 0, exp |-> 0]
Inf(s) == [cls |-> "inf", sgn |-> s, man |-> 0, exp |-> 0]
Zero(s) == [cls |-> "zero", sgn |-> s, man |-> 0, exp |-> 0]

RECURSIVE Norm(_, _, _)
\* The float sgn * m * 10^e for an integer m >= 0, mantissa brought to 8 digits.
Norm(s, m, e) ==
    IF m = 0 THEN Zero(s)
    ELSE IF m >= MantHi THEN Norm(s, m \div 10, e + 1)
    ELSE IF m < Half THEN Norm(s, m * Half, e - 4)
    ELSE IF m < MantLo THEN Norm(s, m * 10, e - 1)
    ELSE [cls |-> "fin", sgn |-> s, man |-> m, exp |-> e]

\* The decimal literal m * 10^e (m an integer), e.g. 2.377e-3 = Dec(2377, -6).
Dec(m, e) == IF m < 0 THEN Norm(-1, -m, e) ELSE Norm(1, m, e)

IsNaN(a) == a.cls = "nan"
IsInf(a) == a.cls = "inf"
IsZero(a) == a.cls = "zero"
IsFinite(a) == a.cls \in {"fin", "zero"}

FNeg(a) == IF IsNaN(a) THEN a ELSE [a EXCEPT !.sgn = -a.sgn]
FAbs(a) == IF IsNaN(a) THEN a ELSE [a EXCEPT !.sgn = 1]

\* The product of two 8-digit mantissas from its high part hi and the digits
\* below it, mid: 15 or 16 digits cut to 8.
MulParts(s, e, hi, mid) ==
    IF hi >= MantLo
    THEN [cls |-> "fin", sgn |-> s, man |-> hi, exp |-> e + 8]
    ELSE [cls |-> "fin", sgn |-> s, man |-> hi * 10 + ((mid % Half) \div 1000),
          exp |-> e + 7]

\* mid and hi of (a1*Half + a0) * (b1*Half + b0).
MulMid(a1, a0, b1, b0) == a1 * b0 + a0 * b1 + ((a0 * b0) \div Half)
MulHalves(s, e, a1, b1, mid) == MulParts(s, e, a1 * b1 + (mid \div Half), mid)

\* IEEE multiplication.
FMul(a, b) ==
    IF IsNaN(a) \/ IsNaN(b) THEN NaN
    ELSE IF (IsInf(a) /\ IsZero(b)) \/ (IsZero(a) /\ IsInf(b)) THEN NaN
    ELSE IF IsInf(a) \/ IsInf(b) THEN Inf(a.sgn * b.sgn)
    ELSE IF IsZero(a) \/ IsZero(b) THEN Zero(a.sgn * b.sgn)
    ELSE MulHalves(a.sgn * b.sgn, a.exp + b.exp, a.man \div Half, b.man \div Half,
                   MulMid(a.man \div Half, a.man % Half, b.man \div Half, b.man % Half))

RECURSIVE LongDiv(_, _, _, _)
\* n quotient digits of r / b by long division, appended to acc.
LongDiv(r, b, n, acc) ==
    IF n = 0 THEN acc
    ELSE LongDiv((r % b) * 10, b, n - 1, acc * 10 + (r \div b))

\* IEEE division, as numpy divides arrays: x/0 is inf, 0/0 is nan.
FDiv(a, b) ==
    IF IsNaN(a) \/ IsNaN(b) THEN NaN
    ELSE IF IsInf(a) /\ IsInf(b) THEN NaN
    ELSE IF IsZero(a) /\ IsZero(b) THEN NaN
    ELSE IF IsInf(a) \/ IsZero(b) THEN Inf(a.sgn * b.sgn)
    ELSE IF IsZero(a) \/ IsInf(b) THEN Zero(a.sgn * b.sgn)
    ELSE Norm(a.sgn * b.sgn, LongDiv(a.man, b.man, 9, 0), a.exp - b.exp - 8)

\* The float s * 10^e for a signed integer s.
Signed(s, e) ==
    IF s = 0 THEN Zero(1) ELSE IF s < 0 THEN Norm(-1, -s, e) ELSE Norm(1, s, e)

\* big + small for two finite nonzero floats with big.exp >= small.exp: the
\* smaller one is shifted to the larger one's exponent, one guard digit kept.
AddAligned(big, small) ==
    IF big.exp - small.exp >= 10 THEN big
    ELSE Signed(big.sgn * big.man * 10
                + small.sgn * ((small.man * 10) \div (10^(big.exp - small.exp))),
                big.exp - 1)

\* IEEE addition.
FAdd(a, b) ==
    IF IsNaN(a) \/ IsNaN(b) THEN NaN
    ELSE IF IsInf(a) /\ IsInf(b) THEN (IF a.sgn = b.sgn THEN a ELSE NaN)
    ELSE IF IsInf(a) THEN a
    ELSE IF IsInf(b) THEN b
    ELSE IF IsZero(a) /\ IsZero(b) THEN (IF a.sgn = b.sgn THEN a ELSE Zero(1))
    ELSE IF IsZero(a) THEN b
    ELSE IF IsZero(b) THEN a
    ELSE IF a.exp >= b.exp THEN AddAligned(a, b)
    ELSE AddAligned(b, a)

FSub(a, b) == FAdd(a, FNeg(b))

IsNegative(d) == d.cls \in {"fin", "inf"} /\ d.sgn = -1

\* a < b and a > b; every comparison with NaN is false.
FLt(a, b) == IsNegative(FSub(a, b))
FGt(a, b) == FLt(b, a)

RECURSIVE ISqrtFrom(_, _)
\* The integer square root of n by Newton's iteration from r >= sqrt(n).
ISqrtStep(n, r, next) == IF next >= r THEN r ELSE ISqrtFrom(n, next)
ISqrtFrom(n, r) == ISqrtStep(n, r, (r + n \div r) \div 2)

FromInt(n) == Dec(n, 0)
One == FromInt(1)
HalfF == Dec(5, -1)

\* One Newton step for the square root of a from the estimate x.
Newton(a, x) == FMul(HalfF, FAdd(x, FDiv(a, x)))

\* The root of the mantissa's leading digits, as a float (4 to 5 digits right).
SqrtEstimate(a) ==
    IF a.exp % 2 # 0
    THEN Norm(1, ISqrtFrom(a.man * 10, 31623), (a.exp - 1) \div 2)
    ELSE Norm(1, ISqrtFrom(a.man, 10000), a.exp \div 2)

\* np.sqrt: nan for a negative argument (numpy warns, it does not raise).
FSqrt(a) ==
    IF IsNaN(a) THEN NaN
    ELSE IF IsZero(a) THEN a
    ELSE IF a.sgn = -1 THEN NaN
    ELSE IF IsInf(a) THEN a
    ELSE Newton(a, Newton(a, SqrtEstimate(a)))

\* Term n+1 of x + x^3/6 + 3x^5/40 + ... from term n.
SeriesNext(x2, term, n) ==
    FDiv(FMul(FMul(term, x2), FromInt((2 * n + 1) * (2 * n + 1))),
         FromInt((2 * n + 2) * (2 * n + 3)))

RECURSIVE ArcsinSeries(_, _, _, _)
\* acc plus next and the terms after it, unless next no longer changes the sum.
SeriesSum(x2, next, n, acc, sum) ==
    IF sum = acc THEN acc ELSE ArcsinSeries(x2, next, n + 1, sum)
SeriesAdd(x2, next, n, acc) == SeriesSum(x2, next, n, acc, FAdd(acc, next))

\* acc is the sum up to term number n; the terms after it are added.
ArcsinSeries(x2, term, n, acc) ==
    IF n = 12 THEN acc ELSE SeriesAdd(x2, SeriesNext(x2, term, n), n, acc)

ArcsinSmall(y) == ArcsinSeries(FMul(y, y), y, 0, y)

\* arcsin on [0, 1]: beyond 1/2 by pi/2 - 2 arcsin(sqrt((1 - x)/2)).
ArcsinPos(ax) ==
    IF FGt(ax, HalfF)
    THEN FSub(Dec(15707963, -7),
              FMul(FromInt(2), ArcsinSmall(FSqrt(FMul(HalfF, FSub(One, ax))))))
    ELSE ArcsinSmall(ax)

\* np.arcsin: nan outside [-1, 1] (numpy warns, it does not raise).
FArcsin(x) ==
    IF IsNaN(x) THEN NaN
    ELSE IF IsZero(x) THEN x
    ELSE IF IsInf(x) \/ FGt(FAbs(x), One) THEN NaN
    ELSE IF x.sgn = -1 THEN FNeg(ArcsinPos(FAbs(x)))
    ELSE ArcsinPos(x)

\* x**n for a whole n >= 1, by repeated multiplication.
RECURSIVE FPowInt(_, _)
FPowInt(x, n) == IF n = 1 THEN x ELSE FMul(FPowInt(x, n - 1), x)

\* x**1.5.
FPow15(x) == FMul(x, FSqrt(x))

\* ------------------------------------------------------------------------
\* numpy arrays: sequences of floats; an operation with a scalar broadcasts it.
\* ------------------------------------------------------------------------
\* A function over 1..n, evaluated once and kept as a sequence.
Arr(f) == f \o <<>>

AddSA(s, a) == Arr([i \in DOMAIN a |-> FAdd(s, a[i])])
AddAA(a, b) == Arr([i \in DOMAIN a |-> FAdd(a[i], b[i])])
SubAA(a, b) == Arr([i \in DOMAIN a |-> FSub(a[i], b[i])])
SubAS(a, s) == Arr([i \in DOMAIN a |-> FSub(a[i], s)])
MulSA(s, a) == Arr([i \in DOMAIN a |-> FMul(s, a[i])])
DivSA(s, a) == Arr([i \in DOMAIN a |-> FDiv(s, a[i])])
DivAS(a, s) == Arr([i \in DOMAIN a |-> FDiv(a[i], s)])
DivAA(a, b) == Arr([i \in DOMAIN a |-> FDiv(a[i], b[i])])
SqrtA(a) == Arr([i \in DOMAIN a |-> FSqrt(a[i])])
ArcsinA(a) == Arr([i \in DOMAIN a |-> FArcsin(a[i])])
PowA(a, n) == Arr([i \in DOMAIN a |-> FPowInt(a[i], n)])
Pow15A(a) == Arr([i \in DOMAIN a |-> FPow15(a[i])])

\* np.linspace(start, stop, num): start + i*step, the last sample set to stop.
LinspaceBy(start, stop, num, step) ==
    Arr([i \in 1..num |-> IF i = num THEN stop
                          ELSE FAdd(FMul(FromInt(i - 1), step), start)])
linspace(start, stop, num) ==
    LinspaceBy(start, stop, num, FDiv(FSub(stop, start), FromInt(num - 1)))

\* ------------------------------------------------------------------------
\* src/main.py, update_output
\* ------------------------------------------------------------------------
\* Lines 98-101 and 109 (the list the code names rpms holds the densities).
rpms == << Dec(2377, -6), Dec(2048, -6), Dec(1756, -6), Dec(1496, -6) >>
\* Fault variant: the ratios of the 5000 ft and 10000 ft bands exchanged.
density_ratios_swapped == << One, Dec(738746, -6), Dec(86159, -5), Dec(62936, -5) >>
\* Line 102.
density_ratios == << One, Dec(86159, -5), Dec(738746, -6), Dec(62936, -5) >>
\* Line 132.
altitudes == << 0, 5000, 10000, 15000 >>
\* Line 105.
c_l_sweep == linspace(Zero(1), Dec(13182, -4), 20)

\* Python's scalar x / y: ZeroDivisionError on a zero divisor.
PyDivRaises(y) == IsZero(y)

\* The values of the eight inputs as the page is served (lines 35-70).
DefaultCfg ==
    [c_d0 |-> Dec(317, -4), AR |-> Dec(571, -2), e0 |-> Dec(6, -1),
     w |-> FromInt(2400), bhp |-> FromInt(180), area |-> FromInt(170),
     prop_diameter |-> FDiv(FromInt(73), FromInt(12)), rpm |-> FromInt(2700)]

\* The locals of a calculate_values call as it starts: its two parameters.
NoLocals(exc, density, density_ratio) ==
    [exc |-> exc, density |-> density, density_ratio |-> density_ratio,
     c_d |-> <<>>, v |-> <<>>, d |-> <<>>, J |-> <<>>, prop_efficiency |-> <<>>,
     p_req |-> <<>>, shp |-> NaN, p_av |-> <<>>, roc |-> <<>>,
     climb_angle |-> <<>>]

\* Lines 113-122, each as a step from the locals before it to the locals after
\* it.  f is the enclosing update_output frame, whose c_l, bhp and arguments the
\* closure reads.
\* c_d = c_d0 + (c_l**2 / (3.14 * e0 * AR))
Line113(f, loc) == [loc EXCEPT !.c_d =
    AddSA(f.cfg.c_d0,
          DivAS(PowA(f.c_l, 2), FMul(FMul(Dec(314, -2), f.cfg.e0), f.cfg.AR)))]
\* v = np.sqrt(w / (0.5 * density * area)) * (1 / np.sqrt(c_l))
Line114(f, loc) == [loc EXCEPT !.v =
    MulSA(FSqrt(FDiv(f.cfg.w, FMul(FMul(HalfF, loc.density), f.cfg.area))),
          DivSA(One, SqrtA(f.c_l)))]
\* d = 0.5 * density * area * v**2
Line115(f, loc) == [loc EXCEPT !.d =
    MulSA(FMul(FMul(HalfF, loc.density), f.cfg.area), PowA(loc.v, 2))]
\* J = v / ((rpm / 60) * prop_diameter)
Line116(f, loc) == [loc EXCEPT !.J =
    DivAS(loc.v, FMul(FDiv(f.cfg.rpm, FromInt(60)), f.cfg.prop_diameter))]
\* prop_efficiency = -12.06*J**4 + 27.19*J**3 - 23.08*J**2 + 9.281*J - 0.8122
Line117(f, loc) == [loc EXCEPT !.prop_efficiency =
    SubAS(AddAA(SubAA(AddAA(MulSA(Dec(-1206, -2), PowA(loc.J, 4)),
                            MulSA(Dec(2719, -2), PowA(loc.J, 3))),
                      MulSA(Dec(2308, -2), PowA(loc.J, 2))),
                MulSA(Dec(9281, -3), loc.J)),
          Dec(8122, -4))]
\* p_req = w * np.sqrt(2 * w / (area * density)) * (c_d / c_l**1.5)
Line118(f, loc) == [loc EXCEPT !.p_req =
    MulSA(FMul(f.cfg.w, FSqrt(FDiv(FMul(FromInt(2), f.cfg.w),
                                   FMul(f.cfg.area, loc.density)))),
          DivAA(loc.c_d, Pow15A(f.c_l)))]
\* Fault variants of line 119: the rated power hard-coded to the default engine,
\* the density ratio left out, and the 550 factor applied again in every call.
Line119_fixed_power(f, loc) ==
    [loc EXCEPT !.shp = FMul(FMul(FromInt(180), FromInt(550)), loc.density_ratio)]
Line119_no_ratio(f, loc) == [loc EXCEPT !.shp = f.bhp]
Line119_reconverting(f, loc) ==
    [loc EXCEPT !.shp = FMul(FMul(f.bhp, FromInt(550)), loc.density_ratio)]
\* shp = bhp * density_ratio
Line119(f, loc) == [loc EXCEPT !.shp = FMul(f.bhp, loc.density_ratio)]
\* p_av = shp * prop_efficiency
Line120(f, loc) == [loc EXCEPT !.p_av = MulSA(loc.shp, loc.prop_efficiency)]
\* roc = (p_av - p_req) / w
Line121(f, loc) == [loc EXCEPT !.roc = DivAS(SubAA(loc.p_av, loc.p_req), f.cfg.w)]
\* Fault variant of line 122: the ratio clipped into [-1, 1] before the arcsine.
Clip(x) == IF FGt(x, One) THEN One ELSE IF FLt(x, FNeg(One)) THEN FNeg(One) ELSE x
ClipA(a) == Arr([i \in DOMAIN a |-> Clip(a[i])])
Line122_clipped(f, loc) ==
    [loc EXCEPT !.climb_angle = ArcsinA(ClipA(DivAA(loc.roc, loc.v)))]
\* climb_angle = np.arcsin(roc / v)
Line122(f, loc) == [loc EXCEPT !.climb_angle = ArcsinA(DivAA(loc.roc, loc.v))]

\* Lines 112-123: the locals of calculate_values when it reaches its return
\* statement, or the exception a scalar division raised on the way.  The two
\* scalar divisions (lines 114 and 118) are Python's, every other division has
\* a numpy array on one side.
calculate_values(f, density, density_ratio) ==
    IF PyDivRaises(FMul(FMul(HalfF, density), f.cfg.area))
       \/ PyDivRaises(FMul(f.cfg.area, density))
    THEN NoLocals("ZeroDivisionError", density, density_ratio)
    ELSE Line122(f, Line121(f, Line120(f, Line119(f, Line118(f, Line117(f,
         Line116(f, Line115(f, Line114(f, Line113(f,
             NoLocals("none", density, density_ratio)))))))))))

\* Line 123: the tuple calculate_values returns.
Returned(loc) == [v |-> loc.v, roc |-> loc.roc, climb_angle |-> loc.climb_angle]

\* What the callback hands to Dash: '' (line 95) or html.Div(plots) (line 173).
EmptyOutput == [kind |-> "str", children |-> <<>>]
Div(plots) == [kind |-> "Div", children |-> plots]
\* output-div before any callback has answered (line 76).
NoOutput == [kind |-> "none", children |-> <<>>]

Min(a, b) == IF a <= b THEN a ELSE b

\* Lines 133-170: the two graphs of loop index i (0-based in the ids, as enumerate
\* counts), labelled with the altitude zip pairs with the i-th result.
Graphs(i, altitude, r) ==
    << [id |-> <<"roc-plot", i - 1>>, name |-> <<"Rate of Climb at", altitude>>,
        x |-> r.v, y |-> r.roc],
       [id |-> <<"climb-angle-plot", i - 1>>, name |-> <<"Climb Angle at", altitude>>,
        x |-> r.v, y |-> r.climb_angle] >>

RECURSIVE PlotLoop(_, _, _)
\* Lines 129-170: the loop over zip(altitudes, density_ratios, results).
PlotLoop(i, results, plots) ==
    IF i > Min(Len(altitudes), Min(Len(density_ratios), Len(results))) THEN plots
    ELSE PlotLoop(i + 1, results, plots \o Graphs(i, altitudes[i], results[i]))

\* ------------------------------------------------------------------------
\* The frame of one update_output invocation.
\*   pc       "idle"    no invocation in this worker
\*            "entry"   line 93, arguments bound
\*            "loop"    line 126, before the list comprehension
\*            "return"  line 95 or line 173, ret is the value to return
\*            "raised"  an exception is propagating out of the callback
\*   calcs    the locals of the calculate_values calls made so far, each as it
\*            was at the call's return statement
\* ------------------------------------------------------------------------
IdleFrame ==
    [pc |-> "idle", n_clicks |-> 0, cfg |-> DefaultCfg, bhp |-> Zero(1),
     c_l |-> <<>>, calcs |-> <<>>, results |-> <<>>, ret |-> NoOutput,
     exc |-> "none"]

\* Dash binds the Input and the eight State values to the parameters.
EntryFrame(n, cfg) == [IdleFrame EXCEPT !.pc = "entry", !.n_clicks = n, !.cfg = cfg,
                                        !.bhp = cfg.bhp]

\* Fault variant of lines 94-109: the n_clicks test left out.
EntryStep_unguarded(f) ==
    [f EXCEPT !.pc = "loop", !.c_l = c_l_sweep, !.bhp = FMul(f.bhp, FromInt(550))]

\* Lines 94-109: the n_clicks test, the sweep and the in-place horsepower
\* conversion.
EntryStep(f) ==
    IF f.n_clicks = 0
    THEN [f EXCEPT !.pc = "return", !.ret = EmptyOutput]
    ELSE [f EXCEPT !.pc = "loop", !.c_l = c_l_sweep,
                   !.bhp = FMul(f.bhp, FromInt(550))]

RECURSIVE Comprehension(_, _)
\* The frame once a calculate_values call has ended with locals loc: the tuple
\* joins results and the comprehension goes on, or the exception leaves it.
AfterCalc(f, k, loc) ==
    IF loc.exc # "none"
    THEN [f EXCEPT !.pc = "raised", !.exc = loc.exc]
    ELSE Comprehension([f EXCEPT !.calcs = Append(f.calcs, loc),
                                 !.results = Append(f.results, Returned(loc))],
                       k + 1)

\* Line 126 from pair number k of zip(rpms, density_ratios) on.
Comprehension(f, k) ==
    IF k > Min(Len(rpms), Len(density_ratios)) THEN f
    ELSE AfterCalc(f, k, calculate_values(f, rpms[k], density_ratios[k]))

\* Lines 129-173 once the comprehension has ended.
PlotStep(f) ==
    IF f.pc = "raised" THEN f
    ELSE [f EXCEPT !.pc = "return", !.ret = Div(PlotLoop(1, f.results, <<>>))]

\* Lines 126-173.
SolveStep(f) == PlotStep(Comprehension(f, 1))

\* Lines 93-173: update_output called alone; what it returns, or what it raises.
Outcome(f) == IF f.pc = "raised" THEN [kind |-> f.exc, children |-> <<>>] ELSE f.ret
Alone(f) == IF f.pc = "loop" THEN Outcome(SolveStep(f)) ELSE Outcome(f)
update_output(n_clicks, c_d0, AR, e0, w, bhp, area, prop_diameter, rpm) ==
    Alone(EntryStep(EntryFrame(n_clicks,
        [c_d0 |-> c_d0, AR |-> AR, e0 |-> e0, w |-> w, bhp |-> bhp,
         area |-> area, prop_diameter |-> prop_diameter, rpm |-> rpm])))

\* ------------------------------------------------------------------------
\* The page and the server of main.py
\* ------------------------------------------------------------------------
\* What a run explores: user actions on the form (clicks on Calculate and edits
\* of an input), images of the gallery, and clicks per image or close button.
MaxEvents == 3
NumImages == 2
MaxModalClicks == 3

\* Server threads that run callbacks at the same time.
Workers == {1, 2}

\* What the user types into the inputs (lines 35-70 give the first of each).
InputValues ==
    [c_d0 |-> {DefaultCfg.c_d0}, AR |-> {DefaultCfg.AR}, e0 |-> {DefaultCfg.e0},
     w |-> {DefaultCfg.w, FromInt(0)},
     bhp |-> {DefaultCfg.bhp, FromInt(360)},
     area |-> {DefaultCfg.area, FromInt(0)},
     prop_diameter |-> {DefaultCfg.prop_diameter}, rpm |-> {DefaultCfg.rpm}]

MainInit ==
    /\ form = DefaultCfg
    /\ calculate_n_clicks = 0
    /\ output_div = NoOutput
    /\ edits = 0
    \* Dash calls every callback once as the page loads; here with n_clicks = 0.
    /\ calls = [c \in Workers |-> IF c = 1 THEN EntryFrame(0, DefaultCfg)
                                  ELSE IdleFrame]

\* The user changes one input; no callback listens to the inputs (they are State).
SetInput(field, value) ==
    /\ calculate_n_clicks + edits < MaxEvents
    /\ value # form[field]
    /\ form' = [form EXCEPT ![field] = value]
    /\ edits' = edits + 1
    /\ UNCHANGED << calculate_n_clicks, output_div, calls >>
    /\ UNCHANGED viewer_vars

\* The user clicks Calculate: Dash calls update_output with the new n_clicks and
\* the inputs' current values, in the first free worker.
Click(c) ==
    /\ calculate_n_clicks + edits < MaxEvents
    /\ calls[c].pc = "idle"
    /\ \A b \in Workers : b < c => calls[b].pc # "idle"
    /\ calculate_n_clicks' = calculate_n_clicks + 1
    /\ calls' = [calls EXCEPT ![c] = EntryFrame(calculate_n_clicks + 1, form)]
    /\ UNCHANGED << form, output_div, edits >>
    /\ UNCHANGED viewer_vars

\* Fault variant of Entry: bhp kept in one module-level variable, so the in-place
\* conversion of line 107 also reaches the calls that are under way.
Entry_shared_bhp(c) ==
    /\ calls[c].pc = "entry"
    /\ calls' = [b \in Workers |->
                   IF b = c THEN EntryStep(calls[c])
                   ELSE IF calls[b].pc = "loop" /\ calls[c].n_clicks > 0
                        THEN [calls[b] EXCEPT !.bhp = FMul(@, FromInt(550))]
                        ELSE calls[b]]
    /\ UNCHANGED << form, calculate_n_clicks, output_div, edits >>
    /\ UNCHANGED viewer_vars

\* Lines 93-109.
Entry(c) ==
    /\ calls[c].pc = "entry"
    /\ calls' = [calls EXCEPT ![c] = EntryStep(calls[c])]
    /\ UNCHANGED << form, calculate_n_clicks, output_div, edits >>
    /\ UNCHANGED viewer_vars

\* Lines 126-170: the four calculate_values calls and the plots.
Solve(c) ==
    /\ calls[c].pc = "loop"
    /\ calls' = [calls EXCEPT ![c] = SolveStep(calls[c])]
    /\ UNCHANGED << form, calculate_n_clicks, output_div, edits >>
    /\ UNCHANGED viewer_vars

\* Lines 95 and 173: the value goes to Dash, which sets output-div's children.
Return(c) ==
    /\ calls[c].pc = "return"
    /\ output_div' = calls[c].ret
    /\ calls' = [calls EXCEPT ![c] = IdleFrame]
    /\ UNCHANGED << form, calculate_n_clicks, edits >>
    /\ UNCHANGED viewer_vars

\* An exception leaves the callback: Dash answers with an error and the page
\* keeps what it shows.
Raise(c) ==
    /\ calls[c].pc = "raised"
    /\ calls' = [calls EXCEPT ![c] = IdleFrame]
    /\ UNCHANGED << form, calculate_n_clicks, output_div, edits >>
    /\ UNCHANGED viewer_vars

\* ------------------------------------------------------------------------
\* src/app.py, the image viewer
\* ------------------------------------------------------------------------
\* Lines 89 and 123: one image card, modal and callback per index.
Images == 0 .. (NumImages - 1)

\* Fault variant of lines 129-132: the close button's count ignored.
toggle_modal_image_only(n1, n2, open) == IF n1 # 0 THEN ~open ELSE open

\* Lines 129-132.
toggle_modal(n1, n2, open) == IF n1 # 0 \/ n2 # 0 THEN ~open ELSE open

\* Lines 63, 104, 108: n_clicks=0 on every image and close button, is_open=False.
ViewerInit ==
    /\ is_open = [i \in Images |-> FALSE]
    /\ image_n_clicks = [i \in Images |-> 0]
    /\ close_n_clicks = [i \in Images |-> 0]
    /\ started = [i \in Images |-> FALSE]

\* Dash's call of callback i as the page loads (lines 124-128 do not prevent it).
InitialCall(i) ==
    /\ ~started[i]
    /\ started' = [started EXCEPT ![i] = TRUE]
    /\ is_open' = [is_open EXCEPT
                     ![i] = toggle_modal(image_n_clicks[i], close_n_clicks[i], @)]
    /\ UNCHANGED << image_n_clicks, close_n_clicks >>
    /\ UNCHANGED main_vars

\* A click on image-i: its n_clicks goes up and callback i runs.
ClickImage(i) ==
    /\ started[i]
    /\ image_n_clicks[i] < MaxModalClicks
    /\ image_n_clicks' = [image_n_clicks EXCEPT ![i] = @ + 1]
    /\ is_open' = [is_open EXCEPT
                     ![i] = toggle_modal(image_n_clicks'[i], close_n_clicks[i], @)]
    /\ UNCHANGED << close_n_clicks, started >>
    /\ UNCHANGED main_vars

\* A click on close-i: its n_clicks goes up and callback i runs.
ClickClose(i) ==
    /\ started[i]
    /\ close_n_clicks[i] < MaxModalClicks
    /\ close_n_clicks' = [close_n_clicks EXCEPT ![i] = @ + 1]
    /\ is_open' = [is_open EXCEPT
                     ![i] = toggle_modal(image_n_clicks[i], close_n_clicks'[i], @)]
    /\ UNCHANGED << image_n_clicks, started >>
    /\ UNCHANGED main_vars

\* ------------------------------------------------------------------------
\* Specifications: the two programs are separate Dash applications.
\* ------------------------------------------------------------------------
Init == MainInit /\ ViewerInit

Next ==
    \/ \E field \in DOMAIN InputValues : \E value \in InputValues[field] :
           SetInput(field, value)
    \/ \E c \in Workers : Click(c)
    \/ \E c \in Workers : Entry(c)
    \/ \E c \in Workers : Solve(c)
    \/ \E c \in Workers : Return(c)
    \/ \E c \in Workers : Raise(c)

Spec == Init /\ [][Next]_vars

NextViewer ==
    \/ \E i \in Images : InitialCall(i)
    \/ \E i \in Images : ClickImage(i)
    \/ \E i \in Images : ClickClose(i)

SpecViewer == Init /\ [][NextViewer]_vars

\* ------------------------------------------------------------------------
\* Properties
\* ------------------------------------------------------------------------
\* A call that went through the computation and stands at its return statement.
Finished(c) == calls[c].pc = "return" /\ calls[c].n_clicks > 0

IsPositive(x) == x.cls \in {"fin", "inf"} /\ x.sgn = 1
\* The specification's AircraftConfig invariants: every input a positive number.
ValidConfig(cfg) == \A field \in DOMAIN cfg : cfg[field].cls = "fin" /\ cfg[field].sgn = 1

Samples == 1 .. Len(c_l_sweep)

\* C1: for every valid configuration a computation yields, for each of the 4
\* altitudes, a series of exactly 19 points (the c_l = 0 sample dropped), each
\* with a finite, non-negative velocity.
C1_NineteenFinitePoints ==
    \A c \in Workers :
        Finished(c) /\ ValidConfig(calls[c].cfg) =>
            /\ Len(calls[c].results) = 4
            /\ \A k \in DOMAIN calls[c].results :
                   /\ Len(calls[c].results[k].v) = 19
                   /\ \A i \in DOMAIN calls[c].results[k].v :
                          /\ IsFinite(calls[c].results[k].v[i])
                          /\ ~IsNegative(calls[c].results[k].v[i])

\* What the code does instead: the default configuration comes back with all 20
\* samples, the first with an infinite velocity and no rate of climb.
C1_TwentyPointsFirstInfinite ==
    \E c \in Workers :
        /\ Finished(c)
        /\ calls[c].cfg = DefaultCfg
        /\ \A k \in 1 .. 4 :
               /\ Len(calls[c].results[k].v) = 20
               /\ calls[c].results[k].v[1] = Inf(1)
               /\ IsNaN(calls[c].results[k].roc[1])
               /\ calls[c].ret.children[2 * k].x[1] = Inf(1)

\* C2: a call whose inputs break a positivity invariant fails with
\* InvalidConfiguration before any altitude is solved, and returns nothing.
C2_InvalidConfigurationRejected ==
    \A c \in Workers :
        calls[c].n_clicks > 0 /\ ~ValidConfig(calls[c].cfg)
        /\ calls[c].pc \in {"loop", "return", "raised"} =>
            /\ calls[c].pc = "raised"
            /\ calls[c].exc = "InvalidConfiguration"
            /\ calls[c].calcs = <<>>

\* What the code does instead: with weight 0 every altitude is solved and eight
\* plots are returned.
C2_ZeroWeightPlotted ==
    \E c \in Workers :
        /\ Finished(c)
        /\ IsZero(calls[c].cfg.w)
        /\ Len(calls[c].calcs) = 4
        /\ Len(calls[c].ret.children) = 8

\* Every angle whose ratio is beyond [-1, 1] is nan, every angle whose ratio is
\* within it is a number.
GapsWhereOutOfDomain(ratio, angle) ==
    \A i \in Samples :
        /\ FGt(FAbs(ratio[i]), One) => IsNaN(angle[i])
        /\ IsFinite(ratio[i]) /\ ~FGt(FAbs(ratio[i]), One) => IsFinite(angle[i])

\* C3: a sample with |roc / v| > 1 gets no numeric climb angle (numpy's nan, which
\* the plot shows as a gap) and raises nothing; the samples whose ratio lies in
\* [-1, 1] get a number, and all four series are returned.
C3_OutOfDomainIsGap ==
    \A c \in Workers :
        Finished(c) =>
            /\ Len(calls[c].calcs) = 4
            /\ Len(calls[c].ret.children) = 8
            /\ \A k \in 1 .. 4 :
                   /\ calls[c].ret.children[2 * k].y = calls[c].calcs[k].climb_angle
                   /\ GapsWhereOutOfDomain(DivAA(calls[c].calcs[k].roc,
                                                calls[c].calcs[k].v),
                                          calls[c].calcs[k].climb_angle)

\* The default configuration at sea level: the second sample's ratio is below
\* -1 and its angle is nan, while the third sample's angle is a number.
C3_GapBesideNumbers ==
    \E c \in Workers :
        /\ Finished(c)
        /\ calls[c].cfg = DefaultCfg
        /\ FLt(FDiv(calls[c].calcs[1].roc[2], calls[c].calcs[1].v[2]), FNeg(One))
        /\ IsNaN(calls[c].ret.children[2].y[2])
        /\ calls[c].ret.children[2].y[3].cls = "fin"
        /\ calls[c].ret.children[8].y[20].cls = "fin"

\* The bands as the specification tabulates them: altitude (ft), density and
\* density ratio.
Bands ==
    << [altitude |-> 0, density |-> Dec(2377, -6), ratio |-> Dec(1, 0)],
       [altitude |-> 5000, density |-> Dec(2048, -6), ratio |-> Dec(86159, -5)],
       [altitude |-> 10000, density |-> Dec(1756, -6), ratio |-> Dec(738746, -6)],
       [altitude |-> 15000, density |-> Dec(1496, -6), ratio |-> Dec(62936, -5)] >>

\* C4: a computation solves exactly the four bands in ascending order, the k-th
\* solve with the density and the ratio of band k, and the k-th pair of curves
\* carries the k-th altitude and the series that solve produced.
C4_BandsAligned ==
    \A c \in Workers :
        /\ \A k \in DOMAIN calls[c].calcs :
               /\ k <= 4
               /\ calls[c].calcs[k].density = Bands[k].density
               /\ calls[c].calcs[k].density_ratio = Bands[k].ratio
               /\ calls[c].calcs[k].shp = FMul(calls[c].bhp, Bands[k].ratio)
        /\ Finished(c) =>
               /\ Len(calls[c].calcs) = 4
               /\ Len(calls[c].ret.children) = 8
               /\ \A k \in 1 .. 4 :
                      /\ calls[c].ret.children[2 * k - 1].name
                             = <<"Rate of Climb at", Bands[k].altitude>>
                      /\ calls[c].ret.children[2 * k - 1].x = calls[c].calcs[k].v
                      /\ calls[c].ret.children[2 * k - 1].y = calls[c].calcs[k].roc
                      /\ calls[c].ret.children[2 * k].name
                             = <<"Climb Angle at", Bands[k].altitude>>
                      /\ calls[c].ret.children[2 * k].x = calls[c].calcs[k].v
                      /\ calls[c].ret.children[2 * k].y = calls[c].calcs[k].climb_angle

\* A finished call whose four solves used four different densities and whose
\* last pair of curves is the 15000 ft pair.
C4_FourBandsSolved ==
    \E c \in Workers :
        /\ Finished(c)
        /\ Len(calls[c].calcs) = 4
        /\ calls[c].calcs[2].density = Dec(2048, -6)
        /\ calls[c].calcs[3].density_ratio = Dec(738746, -6)
        /\ calls[c].ret.children[7].name = <<"Rate of Climb at", 15000>>
        /\ calls[c].ret.children[3].y # calls[c].ret.children[5].y

\* C5: whatever other calls are under way, a call returns what update_output
\* returns when it runs alone on the same arguments, and its converted
\* horsepower and its sweep are those of its own arguments.
C5_CallsIndependent ==
    \A c \in Workers :
        /\ calls[c].pc = "return" =>
               calls[c].ret = update_output(calls[c].n_clicks,
                                  calls[c].cfg.c_d0, calls[c].cfg.AR, calls[c].cfg.e0,
                                  calls[c].cfg.w, calls[c].cfg.bhp, calls[c].cfg.area,
                                  calls[c].cfg.prop_diameter, calls[c].cfg.rpm)
        /\ calls[c].pc = "loop" =>
               /\ calls[c].bhp = FMul(calls[c].cfg.bhp, FromInt(550))
               /\ calls[c].c_l = c_l_sweep

\* Two overlapping calls with different rated powers, both at their return
\* statements with different plots.
C5_OverlappingCallsFinished ==
    /\ Finished(1)
    /\ Finished(2)
    /\ calls[1].cfg.bhp # calls[2].cfg.bhp
    /\ calls[1].ret # calls[2].ret

\* Configuration b is configuration a with the rated power doubled.
Doubled(a, b) ==
    /\ b.bhp = FMul(FromInt(2), a.bhp)
    /\ \A field \in DOMAIN a \ {"bhp"} : a[field] = b[field]

\* Two finished calls, the second on the first's inputs with the power doubled.
DoubledPair(c1, c2) ==
    Finished(c1) /\ Finished(c2) /\ Doubled(calls[c1].cfg, calls[c2].cfg)

\* C6 as stated: doubling the rated power strictly increases the power
\* available at every sample of the sweep and at every altitude.
C6_DoublingIncreasesEverywhere ==
    \A c1, c2 \in Workers :
        DoubledPair(c1, c2) =>
            \A k \in 1 .. 4 : \A i \in Samples :
                FGt(calls[c2].calcs[k].p_av[i], calls[c1].calcs[k].p_av[i])

\* C6: doubling the rated power strictly increases the power available at every
\* sample whose propeller efficiency is positive; where the efficiency is negative
\* the power available strictly decreases, and where it is not a number (the
\* c_l = 0 sample) the power available is not a number either.
C6_DoublingIncreasesWherePositive ==
    \A c1, c2 \in Workers :
        DoubledPair(c1, c2) =>
            \A k \in 1 .. 4 : \A i \in Samples :
                /\ calls[c1].calcs[k].prop_efficiency[i]
                       = calls[c2].calcs[k].prop_efficiency[i]
                /\ IsPositive(calls[c1].calcs[k].prop_efficiency[i]) =>
                       FGt(calls[c2].calcs[k].p_av[i], calls[c1].calcs[k].p_av[i])
                /\ IsNegative(calls[c1].calcs[k].prop_efficiency[i]) =>
                       FLt(calls[c2].calcs[k].p_av[i], calls[c1].calcs[k].p_av[i])
                /\ IsNaN(calls[c1].calcs[k].prop_efficiency[i]) =>
                       IsNaN(calls[c2].calcs[k].p_av[i])

\* 180 hp and 360 hp side by side on the default aircraft: at sea level the power
\* available rises at the third sample and falls at the second.
C6_DoubledPowerCompared ==
    \E c1, c2 \in Workers :
        /\ DoubledPair(c1, c2)
        /\ calls[c1].cfg = DefaultCfg
        /\ IsPositive(calls[c1].calcs[1].prop_efficiency[3])
        /\ FGt(calls[c2].calcs[1].p_av[3], calls[c1].calcs[1].p_av[3])
        /\ IsNegative(calls[c1].calcs[1].prop_efficiency[2])
        /\ FLt(calls[c2].calcs[1].p_av[2], calls[c1].calcs[1].p_av[2])

\* The power available of band j at the efficiencies band k's solve found.
PowerAvailableAt(f, k, j) ==
    Line120(f, Line119(f, [f.calcs[k] EXCEPT !.density_ratio = density_ratios[j]])).p_av

LowerEverywhere(higher, lower) == \A i \in Samples : FLt(higher[i], lower[i])

LowerWherePositive(higher, lower, efficiency) ==
    \A i \in Samples :
        /\ IsPositive(efficiency[i]) => FLt(higher[i], lower[i])
        /\ IsNegative(efficiency[i]) => FGt(higher[i], lower[i])

\* C7 as stated: at a fixed efficiency, the power available of a higher band is
\* strictly below that of a lower band, for every pair of bands.
C7_HigherBandLessPower ==
    \A c \in Workers :
        Finished(c) =>
            \A k \in 1 .. 4 : \A j \in 1 .. 4 :
                j > k => LowerEverywhere(PowerAvailableAt(calls[c], k, j),
                                         calls[c].calcs[k].p_av)

\* C7: at a fixed positive efficiency, the power available of a higher band is
\* strictly below that of a lower band, for every pair of bands; at a negative
\* efficiency it is strictly above.
C7_HigherBandLessPowerWherePositive ==
    \A c \in Workers :
        Finished(c) =>
            \A k \in 1 .. 4 : \A j \in 1 .. 4 :
                j > k => LowerWherePositive(PowerAvailableAt(calls[c], k, j),
                                            calls[c].calcs[k].p_av,
                                            calls[c].calcs[k].prop_efficiency)

\* The default aircraft: the sea-level efficiency of the last sample is positive
\* and that of the second negative, and the 15000 ft power differs from the
\* sea-level power in opposite directions.
C7_BandsCompared ==
    \E c \in Workers :
        /\ Finished(c)
        /\ calls[c].cfg = DefaultCfg
        /\ IsPositive(calls[c].calcs[1].prop_efficiency[20])
        /\ FLt(PowerAvailableAt(calls[c], 1, 4)[20], calls[c].calcs[1].p_av[20])
        /\ IsNegative(calls[c].calcs[1].prop_efficiency[2])
        /\ FGt(PowerAvailableAt(calls[c], 1, 4)[2], calls[c].calcs[1].p_av[2])

\* C8: with n_clicks = 0 update_output returns the empty output and computes
\* nothing; with n_clicks > 0 it returns exactly 8 curves, for each altitude in
\* ascending order the rate-of-climb curve and then the climb-angle curve, both
\* over the velocity series of that altitude's solve and as long as it.
C8_EmptyThenEightCurves ==
    \A c \in Workers :
        /\ calls[c].n_clicks = 0 /\ calls[c].pc \in {"loop", "return", "raised"} =>
               /\ calls[c].pc = "return"
               /\ calls[c].ret = EmptyOutput
               /\ calls[c].calcs = <<>>
               /\ calls[c].results = <<>>
               /\ calls[c].c_l = <<>>
        /\ Finished(c) =>
               /\ calls[c].ret.kind = "Div"
               /\ Len(calls[c].ret.children) = 8
               /\ \A k \in 1 .. 4 :
                      /\ calls[c].ret.children[2 * k - 1].id = <<"roc-plot", k - 1>>
                      /\ calls[c].ret.children[2 * k].id = <<"climb-angle-plot", k - 1>>
                      /\ calls[c].ret.children[2 * k - 1].name[2] = altitudes[k]
                      /\ calls[c].ret.children[2 * k].name[2] = altitudes[k]
                      /\ k > 1 => altitudes[k - 1] < altitudes[k]
                      /\ calls[c].ret.children[2 * k - 1].x = calls[c].results[k].v
                      /\ calls[c].ret.children[2 * k].x = calls[c].results[k].v
                      /\ calls[c].ret.children[2 * k - 1].y = calls[c].results[k].roc
                      /\ calls[c].ret.children[2 * k].y = calls[c].results[k].climb_angle
                      /\ Len(calls[c].results[k].v) = Len(c_l_sweep)
                      /\ Len(calls[c].results[k].roc) = Len(c_l_sweep)
                      /\ Len(calls[c].results[k].climb_angle) = Len(c_l_sweep)

\* The page-load call about to return the empty output while the call of the
\* first click is about to return its eight curves.
C8_EmptyAndEightCurves ==
    /\ calls[1].pc = "return"
    /\ calls[1].n_clicks = 0
    /\ calls[1].ret = EmptyOutput
    /\ Finished(2)
    /\ calls[2].n_clicks = 1
    /\ Len(calls[2].ret.children) = 8

\* C9: in every solve of a computation the shaft power is the rated power times
\* 550 times the band's density ratio, with the factor 550 applied once, in the
\* first call and in a repeated call alike.
C9_ConvertedOnce ==
    \A c \in Workers :
        /\ calls[c].pc \in {"loop", "return", "raised"} /\ calls[c].n_clicks > 0 =>
               calls[c].bhp = FMul(calls[c].cfg.bhp, FromInt(550))
        /\ \A k \in DOMAIN calls[c].calcs :
               calls[c].calcs[k].shp
                   = FMul(FMul(calls[c].cfg.bhp, FromInt(550)), density_ratios[k])

\* The second click on unchanged inputs: at 15000 ft the shaft power is
\* 180 * 550 * 0.62936 = 62306.64.
C9_SecondCallSameShaftPower ==
    \E c \in Workers :
        /\ Finished(c)
        /\ calls[c].n_clicks = 2
        /\ calls[c].cfg = DefaultCfg
        /\ calls[c].calcs[4].shp = Dec(6230664, -2)

\* C10: a modal is open exactly when the clicks on its image and on its close
\* button add up to an odd number: it starts closed, the call made while both
\* counts are 0 leaves it closed, every click on image-i or close-i flips modal
\* i, and no click elsewhere changes it.
C10_ModalParity ==
    \A i \in Images :
        is_open[i] = ((image_n_clicks[i] + close_n_clicks[i]) % 2 = 1)

\* Modal 0 opened by its image and closed by its close button, while modal 1,
\* opened by one click on its image, stays open.
C10_OpenedAndClosed ==
    /\ started[0]
    /\ image_n_clicks[0] = 1
    /\ close_n_clicks[0] = 1
    /\ ~is_open[0]
    /\ image_n_clicks[1] = 1
    /\ close_n_clicks[1] = 0
    /\ is_open[1]

====
